---- MODULE Spec2Model ----
(***************************************************************************)
(* A model of the two browser front ends of the repository:                *)
(*   - the replay viewer (src/web/viewer.js): feed polling, version        *)
(*     fingerprint, event normalisation, playback and transport controls;  *)
(*   - the management panel (src/web/management.js, lines 1-504): the      *)
(*     in-memory manager state, its local-storage mirror, bootstrap and    *)
(*     the bridge file.                                                    *)
(* The two scripts share no runtime, so each has its own specification:    *)
(* Spec (viewer), PlaybackSpec (viewer, animation frames only, fair),      *)
(* PollingSpec (viewer, from the first applied feed on) and ManagerSpec    *)
(* (panel).  In each, the other script is not loaded and its variables     *)
(* stay NotLoaded.  NormalizeSpec takes one call of normalizeEvent on its  *)
(* own, over the raw events of both feed shapes.                           *)
(***************************************************************************)
EXTENDS Integers, Sequences, FiniteSets, TLC

VARIABLES
    \* ---- viewer.js ----
    events,          \* let events            (normalized pitch events)
    currentIndex,    \* let currentIndex
    playing,         \* let playing
    sinceTick,       \* let lastTick, kept as the time from it to the latest frame
    tickDelay,       \* let tickDelay
    feedVersion,     \* let feedVersion       (Null until a feed was applied)
    log,             \* children of #log      (one entry per rendered event)
    feedStatus,      \* #feedStatus           (className state and text)
    playPauseText,   \* #playPause textContent
    requests,        \* loadEvents calls awaiting fetchReplayPayload, oldest first;
                     \* each with its silent option and whether a call made
                     \* after it has already succeeded (overtaken)
    polling,         \* the setInterval(refreshLoop) registration is live
    issued,          \* number of loadEvents calls made so far
    lastLoad,        \* how the latest settled loadEvents call ended, and the
                     \* payload it had received
    call,            \* a call normalizeEvent(rawEvent, idx) taken on its own:
                     \* the values the raw event carries, its shape, and idx + 1
    returned,        \* what that call returned (Undefined before it returns)
    \* ---- management.js ----
    state,           \* let state
    storage,         \* localStorage item 'managerState' (Null when absent)
    bootRaw,         \* what loadLocalState read when bootstrapState was called
    bootstrap,       \* bootstrapState: "pending", "done" or "threw"
    earlyOps,        \* operations handled while bootstrapState was pending
    rendered,        \* rows of #lineupList and #rotationList, which carry the
                     \* edit handlers
    syncStatus,      \* #syncStatus        (text and level)
    validationStatus, \* #managementStatus (text and level)
    uploadValue      \* uploadInput.value: '' or the path of the chosen file

vvars == <<events, currentIndex, playing, sinceTick, tickDelay, feedVersion,
           log, feedStatus, playPauseText, requests, polling, issued, lastLoad>>

mvars == <<state, storage, bootRaw, bootstrap, earlyOps, rendered, syncStatus,
           validationStatus, uploadValue>>

nvars == <<call, returned>>

vars == <<vvars, mvars, nvars>>

-----------------------------------------------------------------------------
(* Bounds of the model.                                                    *)

MaxEvents == 3       \* raw events in one feed payload
MaxPolls == 1        \* refreshLoop calls, after the load made at start-up
MaxEarlyOps == 1     \* operations of the panel before its bootstrap has finished

-----------------------------------------------------------------------------
(* JavaScript values.  A value carries its type, so that ||, ?? and        *)
(* property access behave as in the language.                              *)

Undefined == [t |-> "undefined"]
Null == [t |-> "null"]
NaN == [t |-> "nan"]
Num(n) == [t |-> "number", v |-> n]
Str(s) == [t |-> "string", v |-> s]
Bool(b) == [t |-> "boolean", v |-> b]
Arr(s) == [t |-> "array", v |-> s]
Obj(f) == [t |-> "object", v |-> f]
EmptyObj == Obj([k \in {} |-> Undefined])

\* ToBoolean
Truthy(x) ==
    CASE x.t \in {"undefined", "null", "nan"} -> FALSE
      [] x.t = "number" -> x.v # 0
      [] x.t = "string" -> x.v # ""
      [] x.t = "boolean" -> x.v
      [] OTHER -> TRUE

\* a || b
Or(a, b) == IF Truthy(a) THEN a ELSE b

\* a ?? b
Nullish(a, b) == IF a.t \in {"undefined", "null"} THEN b ELSE a

\* o.k for an o that is not null or undefined, and o?.k
Get(o, k) == IF o.t = "object" /\ k \in DOMAIN o.v THEN o.v[k] ELSE Undefined

\* String(x), as a template literal applies it
Text(x) ==
    CASE x.t = "undefined" -> "undefined"
      [] x.t = "null" -> "null"
      [] x.t = "nan" -> "NaN"
      [] x.t = "number" -> ToString(x.v)
      [] x.t = "string" -> x.v
      [] x.t = "boolean" -> IF x.v THEN "true" ELSE "false"
      [] OTHER -> "[object]"

\* An element as Array.prototype.join writes it: null and undefined give ''
JoinText(x) == IF x.t \in {"undefined", "null"} THEN "" ELSE Text(x)

Min(a, b) == IF a <= b THEN a ELSE b

\* array.slice(0, 3)
Slice3(a) == Arr(SubSeq(a.v, 1, Min(3, Len(a.v))))

NoBases == Arr(<<Bool(FALSE), Bool(FALSE), Bool(FALSE)>>)

-----------------------------------------------------------------------------
(* viewer.js: normalizeEvent.  i is idx + 1, the position in the raw array *)
(* counted from one.                                                       *)

\* the shape test reading rawEvent.result, which no feed event has
NestedShapeByResult(rawEvent) ==
    Truthy(Get(rawEvent, "context")) /\ Truthy(Get(rawEvent, "result"))

NestedShape(rawEvent) ==
    Truthy(Get(rawEvent, "context")) /\ Truthy(Get(rawEvent, "outcome"))

NormalizeNested(rawEvent, i) ==
    LET context == Get(rawEvent, "context")
        outcome == Get(rawEvent, "outcome")
        countBefore == Or(Get(Get(context, "count"), "before"), EmptyObj)
        countAfter == Or(Get(Get(context, "count"), "after"), EmptyObj)
        outs == Or(Get(context, "outs"), EmptyObj)
        bases == Or(Get(context, "bases"), EmptyObj)
        crowd == Or(Get(context, "crowd"), EmptyObj)
    IN  [ number |-> Nullish(Get(context, "pitch_number"), Num(i)),
          batter |-> Or(Get(context, "batter"), Str("Unknown")),
          outcome |-> Or(Get(outcome, "result"), Str("unknown")),
          detail |-> Or(Get(outcome, "detail"), Str("")),
          balls_before |-> Nullish(Get(countBefore, "balls"), Num(0)),
          strikes_before |-> Nullish(Get(countBefore, "strikes"), Num(0)),
          outs_before |-> Nullish(Get(outs, "before"), Num(0)),
          balls_after |-> Nullish(Get(countAfter, "balls"),
                                  Nullish(Get(countBefore, "balls"), Num(0))),
          strikes_after |-> Nullish(Get(countAfter, "strikes"),
                                    Nullish(Get(countBefore, "strikes"), Num(0))),
          outs_after |-> Nullish(Get(outs, "after"),
                                 Nullish(Get(outs, "before"), Num(0))),
          bases_before |-> Slice3(Or(Get(bases, "before"), NoBases)),
          bases_after |-> Slice3(Or(Get(bases, "after"), NoBases)),
          runs_scored |-> Nullish(Get(outcome, "runs_scored"), Num(0)),
          total_runs |-> Nullish(Get(outcome, "total_runs"), Num(0)),
          contact_quality |-> Nullish(Get(outcome, "contact_quality"), Num(0)),
          crowd_energy_before |-> Nullish(Get(crowd, "energy_before"), Num(0)),
          crowd_energy_after |-> Nullish(Get(crowd, "energy_after"), Num(0)),
          crowd_modifiers |-> Or(Get(Get(rawEvent, "modifiers"), "crowd"), EmptyObj) ]

NormalizeFlat(rawEvent, i) ==
    [ number |-> Nullish(Get(rawEvent, "number"), Num(i)),
      batter |-> Or(Get(rawEvent, "batter"), Str("Unknown")),
      outcome |-> Or(Get(rawEvent, "outcome"), Str("unknown")),
      detail |-> Or(Get(rawEvent, "detail"), Str("")),
      balls_before |-> Nullish(Get(rawEvent, "balls_before"), Num(0)),
      strikes_before |-> Nullish(Get(rawEvent, "strikes_before"), Num(0)),
      outs_before |-> Nullish(Get(rawEvent, "outs_before"), Num(0)),
      balls_after |-> Nullish(Get(rawEvent, "balls_after"),
                              Nullish(Get(rawEvent, "balls_before"), Num(0))),
      strikes_after |-> Nullish(Get(rawEvent, "strikes_after"),
                                Nullish(Get(rawEvent, "strikes_before"), Num(0))),
      outs_after |-> Nullish(Get(rawEvent, "outs_after"),
                             Nullish(Get(rawEvent, "outs_before"), Num(0))),
      bases_before |-> Slice3(Or(Get(rawEvent, "bases_before"), NoBases)),
      bases_after |-> Slice3(Or(Get(rawEvent, "bases_after"), NoBases)),
      runs_scored |-> Nullish(Get(rawEvent, "runs_scored"), Num(0)),
      total_runs |-> Nullish(Get(rawEvent, "total_runs"), Num(0)),
      contact_quality |-> Nullish(Get(rawEvent, "contact_quality"), Num(0)),
      crowd_energy_before |-> Nullish(Get(rawEvent, "crowd_energy_before"), Num(0)),
      crowd_energy_after |-> Nullish(Get(rawEvent, "crowd_energy_after"), Num(0)),
      crowd_modifiers |-> Or(Get(rawEvent, "crowd_modifiers"), EmptyObj) ]

normalizeEvent(rawEvent, i) ==
    IF ~Truthy(rawEvent) THEN Null
    ELSE IF NestedShape(rawEvent) THEN NormalizeNested(rawEvent, i)
    ELSE NormalizeFlat(rawEvent, i)

\* (payload.events || []).map((evt, idx) => normalizeEvent(evt, idx)).filter(Boolean)
NormalizedEvents(payload) ==
    LET raw == Or(Get(payload, "events"), Arr(<<>>)).v
        mapped == [i \in 1..Len(raw) |-> normalizeEvent(raw[i], i)]
    IN  SelectSeq(mapped, LAMBDA e : e # Null)

\* versionFromPayload: [updated_at, game_id, events?.length].join('|')
EventsLength(payload) ==
    LET e == Get(payload, "events")
    IN  IF e.t = "array" THEN Num(Len(e.v)) ELSE Undefined

versionFromPayload(payload) ==
    JoinText(Get(payload, "updated_at")) \o "|" \o
    JoinText(Get(payload, "game_id")) \o "|" \o
    JoinText(EventsLength(payload))

-----------------------------------------------------------------------------
(* What the feed can hold.  A feed event is null or an object of one of    *)
(* the two shapes; a field that is present has the type the renderer       *)
(* expects of it (strings, numbers, arrays of booleans), so render does    *)
(* not throw.                                                              *)

FlatEvent ==
    Obj([ outcome |-> Str("ball"), balls_before |-> Num(2),
          bases_before |-> Arr(<<Bool(TRUE), Bool(FALSE)>>) ])

RawEvents == {Null, FlatEvent}

\* Feeds of up to MaxEvents entries, at most one of them null
RawFeeds ==
    { f \in UNION {[1..n -> RawEvents] : n \in 0..MaxEvents} :
        Cardinality({i \in DOMAIN f : f[i] = Null}) <= 1 }

UpdatedAts == {Undefined, Str("t1")}

\* The documents replay.json can hold: null, or an object with an optional
\* updated_at, a game_id and an optional events array.
Payloads ==
    {Null} \cup
    { Obj([updated_at |-> u, game_id |-> Str("g1"), events |-> e]) :
        u \in UpdatedAts, e \in {Undefined} \cup {Arr(f) : f \in RawFeeds} }

\* versionFromPayload and the normalized events of each document, computed once
VersionOf == [payload \in Payloads \ {Null} |-> versionFromPayload(payload)]
EventsOf == [payload \in Payloads \ {Null} |-> NormalizedEvents(payload)]

\* How fetchReplayPayload fails: fetch rejects, the status is not OK, or
\* response.json() rejects.  The message is the thrown error's.
FetchFailures ==
    { [kind |-> "rejected", message |-> "Failed to fetch"],
      [kind |-> "not_ok", message |-> "Replay feed unavailable (404)"],
      [kind |-> "bad_json", message |-> "Unexpected token < in JSON"] }

\* speedInput.value, as Number() reads it
Speeds == {1, 2}

\* Time between two animation frames
FrameGaps == {1, 2}

\* lastTick is kept relative to the latest frame: NoTick stands for
\* lastTick = 0 (the next frame restarts the clock), and a distance past
\* every tickDelay is kept as MaxDelay, which loop cannot tell from it.
NoTick == -1
MaxDelay == CHOOSE m \in Speeds : \A v \in Speeds : v <= m

-----------------------------------------------------------------------------
(* viewer.js: rendering and playback.                                      *)

\* setStatus(message, state): the text and the state of the class name
Status(message, className) == [text |-> message, state |-> className]

RECURSIVE BasesText(_)
\* bases.map((b) => (b ? '1' : '-')).join('')
BasesText(bases) ==
    IF Len(bases) = 0 THEN ""
    ELSE (IF Truthy(Head(bases)) THEN "1" ELSE "-") \o BasesText(Tail(bases))

\* updateLog: the entry appended to #log, as the values its text is made of
LogEntry(event) ==
    [ number |-> event.number, batter |-> event.batter, outcome |-> event.outcome,
      balls_before |-> event.balls_before, strikes_before |-> event.strikes_before,
      balls_after |-> event.balls_after, strikes_after |-> event.strikes_after,
      basesBefore |-> BasesText(event.bases_before.v),
      basesAfter |-> BasesText(event.bases_after.v) ]

\* render with updateLog called twice
RenderLogsTwice(event, entries) == Append(Append(entries, LogEntry(event)), LogEntry(event))

\* render(event): of the page, the model keeps the log
render(event, entries) == Append(entries, LogEntry(event))

\* The playback position, as stepOnce reads and writes it
Player == [ currentIndex |-> currentIndex, playing |-> playing,
            log |-> log, playPauseText |-> playPauseText ]

SetPlayer(p) ==
    /\ currentIndex' = p.currentIndex
    /\ playing' = p.playing
    /\ log' = p.log
    /\ playPauseText' = p.playPauseText

\* stepOnce ending with playing = currentIndex < events.length, which
\* un-pauses a viewer that still has events
StepOnceUnpauses(evs, p) ==
    IF p.currentIndex >= Len(evs) THEN p
    ELSE LET q == [p EXCEPT !.log = render(evs[p.currentIndex + 1], @),
                            !.currentIndex = @ + 1]
         IN  IF q.currentIndex >= Len(evs)
             THEN [q EXCEPT !.playing = FALSE, !.playPauseText = "Play"]
             ELSE [q EXCEPT !.playing = TRUE]

stepOnce(evs, p) ==
    IF p.currentIndex >= Len(evs) THEN p
    ELSE LET q == [p EXCEPT !.log = render(evs[p.currentIndex + 1], @),
                            !.currentIndex = @ + 1]
         IN  IF q.currentIndex >= Len(evs)
             THEN [q EXCEPT !.playing = FALSE, !.playPauseText = "Play"]
             ELSE q

RECURSIVE SkipLoop(_, _)
RECURSIVE SkipLoopStopsShort(_, _)
\* while (currentIndex < events.length - 1) stepOnce()
SkipLoopStopsShort(evs, p) ==
    IF p.currentIndex < Len(evs) - 1
    THEN SkipLoopStopsShort(evs, stepOnce(evs, p)) ELSE p

\* while (currentIndex < events.length) stepOnce()
SkipLoop(evs, p) ==
    IF p.currentIndex < Len(evs) THEN SkipLoop(evs, stepOnce(evs, p)) ELSE p

\* applyEvents without currentIndex = 0 and logEl.innerHTML = ''
ApplyEventsKeepsPosition(normalizedEvents) ==
    LET kept == [Player EXCEPT !.playing = TRUE, !.playPauseText = "Pause"]
    IN  IF Len(normalizedEvents) = 0
        THEN [ events |-> normalizedEvents, player |-> kept, sinceTick |-> NoTick,
               feedStatus |-> Status("No events available in replay feed.", "error") ]
        ELSE [ events |-> normalizedEvents,
               player |-> stepOnce(normalizedEvents, kept), sinceTick |-> NoTick,
               feedStatus |-> Status("Loaded " \o ToString(Len(normalizedEvents))
                                       \o " pitches from replay feed.", "success") ]

\* applyEvents(normalizedEvents)
applyEvents(normalizedEvents) ==
    LET reset == [ currentIndex |-> 0, playing |-> TRUE, log |-> <<>>,
                   playPauseText |-> "Pause" ]
    IN  IF Len(normalizedEvents) = 0
        THEN [ events |-> normalizedEvents, player |-> reset, sinceTick |-> NoTick,
               feedStatus |-> Status("No events available in replay feed.", "error") ]
        ELSE [ events |-> normalizedEvents,
               player |-> stepOnce(normalizedEvents, reset), sinceTick |-> NoTick,
               feedStatus |-> Status("Loaded " \o ToString(Len(normalizedEvents))
                                       \o " pitches from replay feed.", "success") ]

\* the early return taken for the loads that are not silent
SameFeedNotSilent(version, stored, silent) ==
    Truthy(Str(version)) /\ Str(version) = stored /\ ~silent

\* loadEvents: if (version && version === feedVersion && silent) return
SameFeed(version, stored, silent) ==
    Truthy(Str(version)) /\ Str(version) = stored /\ silent

\* loadEvents, catch: the status a failed load leaves
FailedStatus(message) == Status("Failed to load feed: " \o message, "error")

-----------------------------------------------------------------------------
(* viewer.js: the state machine.                                           *)

\* The state once the script has run: loadEvents() is awaiting its
\* fetch, the poll interval and the first animation frame are registered.
InitViewer ==
    /\ events = <<>>
    /\ currentIndex = 0
    /\ playing = TRUE
    /\ sinceTick = NoTick
    /\ tickDelay \in Speeds
    /\ feedVersion = Null
    /\ log = <<>>
    /\ feedStatus = Status("Loading replay feed...", "loading")
    /\ playPauseText = "Pause"
    /\ requests = <<[silent |-> FALSE, overtaken |-> FALSE]>>
    /\ polling = TRUE
    /\ issued = 1
    /\ lastLoad = [outcome |-> "none", payload |-> Undefined]

\* loop(timestamp), called by requestAnimationFrame, gap after the latest
\* frame.  if (!lastTick) lastTick = timestamp makes delta 0.
loop(gap) ==
    LET delta == IF sinceTick = NoTick THEN 0 ELSE Min(sinceTick + gap, MaxDelay)
    IN  /\ IF playing /\ delta >= tickDelay
           THEN SetPlayer(stepOnce(events, Player)) /\ sinceTick' = 0
           ELSE UNCHANGED <<currentIndex, playing, log, playPauseText>> /\ sinceTick' = delta
        /\ UNCHANGED <<events, tickDelay, feedVersion, feedStatus, requests, polling, issued, lastLoad>>
        /\ UNCHANGED <<mvars, nvars>>

Frame == \E gap \in FrameGaps : loop(gap)

\* a playPauseBtn click handler that also goes back to the start
PlayPauseRewinds ==
    /\ playing' = ~playing
    /\ playPauseText' = IF ~playing THEN "Pause" ELSE "Play"
    /\ currentIndex' = 0
    /\ UNCHANGED <<events, sinceTick, tickDelay, feedVersion, log,
                   feedStatus, requests, polling, issued, lastLoad>>
    /\ UNCHANGED <<mvars, nvars>>

\* playPauseBtn click
PlayPause ==
    /\ playing' = ~playing
    /\ playPauseText' = IF ~playing THEN "Pause" ELSE "Play"
    /\ UNCHANGED <<events, currentIndex, sinceTick, tickDelay, feedVersion, log,
                   feedStatus, requests, polling, issued, lastLoad>>
    /\ UNCHANGED <<mvars, nvars>>

\* a stepBtn click handler that takes the event off the list (events.shift())
StepShifts ==
    /\ events' = IF events = <<>> THEN events ELSE Tail(events)
    /\ SetPlayer(stepOnce(events, [Player EXCEPT !.playing = FALSE,
                                                 !.playPauseText = "Play"]))
    /\ UNCHANGED <<sinceTick, tickDelay, feedVersion, feedStatus, requests,
                   polling, issued, lastLoad>>
    /\ UNCHANGED <<mvars, nvars>>

\* stepBtn click
Step ==
    /\ SetPlayer(stepOnce(events, [Player EXCEPT !.playing = FALSE,
                                                 !.playPauseText = "Play"]))
    /\ UNCHANGED <<events, sinceTick, tickDelay, feedVersion, feedStatus, requests,
                   polling, issued, lastLoad>>
    /\ UNCHANGED <<mvars, nvars>>

\* skipBtn click
Skip ==
    /\ SetPlayer(SkipLoop(events, [Player EXCEPT !.playing = FALSE,
                                                 !.playPauseText = "Play"]))
    /\ UNCHANGED <<events, sinceTick, tickDelay, feedVersion, feedStatus, requests,
                   polling, issued, lastLoad>>
    /\ UNCHANGED <<mvars, nvars>>

\* speedInput input
Speed ==
    /\ \E v \in Speeds : tickDelay' = v
    /\ UNCHANGED <<events, currentIndex, playing, sinceTick, feedVersion, log,
                   feedStatus, playPauseText, requests, polling, issued, lastLoad>>
    /\ UNCHANGED <<mvars, nvars>>

\* The interval fires: refreshLoop calls loadEvents({silent: true}), which
\* sets no status and awaits the fetch.
Poll ==
    /\ polling
    /\ issued <= MaxPolls
    /\ requests' = Append(requests, [silent |-> TRUE, overtaken |-> FALSE])
    /\ issued' = issued + 1
    /\ UNCHANGED <<events, currentIndex, playing, sinceTick, tickDelay, feedVersion,
                   log, feedStatus, playPauseText, polling, lastLoad>>
    /\ UNCHANGED <<mvars, nvars>>

\* requests without its r-th call, which has settled
Settled(r) == SubSeq(requests, 1, r - 1) \o SubSeq(requests, r + 1, Len(requests))

\* requests without its r-th call, which has succeeded: the calls made
\* before it that are still waiting have been overtaken
Succeeded(r) ==
    [i \in 1..(r - 1) |-> [requests[i] EXCEPT !.overtaken = TRUE]]
       \o SubSeq(requests, r + 1, Len(requests))

\* a catch block that also empties the viewer
LoadFailedClears(r, payload, message) ==
    /\ feedStatus' = FailedStatus(message)
    /\ requests' = Settled(r)
    /\ lastLoad' = [outcome |-> "failed", payload |-> payload]
    /\ events' = <<>>
    /\ currentIndex' = 0
    /\ log' = <<>>
    /\ UNCHANGED <<playing, sinceTick, tickDelay, feedVersion,
                   playPauseText, polling, issued>>
    /\ UNCHANGED <<mvars, nvars>>

\* loadEvents, catch (error): the status is set and the error thrown on;
\* refreshLoop swallows it, the initial call leaves it unhandled.
LoadFailed(r, payload, message) ==
    /\ feedStatus' = FailedStatus(message)
    /\ requests' = Settled(r)
    /\ lastLoad' = [outcome |-> "failed", payload |-> payload]
    /\ UNCHANGED <<events, currentIndex, playing, sinceTick, tickDelay, feedVersion,
                   log, playPauseText, polling, issued>>
    /\ UNCHANGED <<mvars, nvars>>

\* fetchReplayPayload throws in the loadEvents call r
FeedFails(r, failure) ==
    /\ r \in DOMAIN requests
    /\ LoadFailed(r, Undefined, failure.message)

\* fetchReplayPayload returns payload to the loadEvents call r
FeedArrives(r, payload) ==
    /\ r \in DOMAIN requests
    /\ IF payload = Null
       THEN \* payload.updated_at throws a TypeError inside the try block
            LoadFailed(r, payload, "Cannot read properties of null")
       ELSE LET version == VersionOf[payload]
                normalizedEvents == EventsOf[payload]
            IN  IF SameFeed(version, feedVersion, requests[r].silent)
                THEN /\ requests' = Succeeded(r)
                     /\ lastLoad' = [outcome |-> "same", payload |-> payload]
                     /\ UNCHANGED <<events, currentIndex, playing, sinceTick, tickDelay,
                                    feedVersion, log, feedStatus, playPauseText,
                                    polling, issued>>
                ELSE LET applied == applyEvents(normalizedEvents)
                     IN  /\ feedVersion' = Str(version)
                         /\ events' = applied.events
                         /\ SetPlayer(applied.player)
                         /\ sinceTick' = applied.sinceTick
                         /\ feedStatus' = applied.feedStatus
                         /\ requests' = Succeeded(r)
                         /\ lastLoad' = [outcome |-> "applied", payload |-> payload]
                         /\ UNCHANGED <<tickDelay, polling, issued>>
    /\ UNCHANGED <<mvars, nvars>>

-----------------------------------------------------------------------------
(* management.js: values.                                                  *)

\* The number n/2: prices move in steps of 0.5
Half(n) == IF n % 2 = 0 THEN Num(n \div 2)
           ELSE [t |-> "number", v |-> n, halves |-> TRUE]

\* Twice a number
HalvesOf(x) == IF "halves" \in DOMAIN x THEN x.v ELSE 2 * x.v

\* What a throwing call yields
Throws == [t |-> "throw"]

\* Strings that Number() reads as a number
NumericStrings == ("4.5" :> Half(9)) @@ ("" :> Num(0))

\* Number(x), for x that is not an array
Number(x) ==
    CASE x.t = "number" -> x
      [] x.t = "null" -> Num(0)
      [] x.t = "boolean" -> Num(IF x.v THEN 1 ELSE 0)
      [] x.t = "string" -> IF x.v \in DOMAIN NumericStrings
                           THEN NumericStrings[x.v] ELSE NaN
      [] OTHER -> NaN

\* x * n for a whole number n
Times(x, n) == IF x.t = "number" THEN Half(HalvesOf(x) * n) ELSE NaN

\* The own properties of x, as the spread syntax reads them (none for null,
\* undefined, numbers and booleans)
Props(x) == IF x.t = "object" THEN x.v ELSE EmptyObj.v

\* { ...a, ...b }
Spread(a, b) == Obj(Props(b) @@ Props(a))

\* clone(value): a structured copy, which keeps NaN and undefined
clone(value) == value

RECURSIVE ToJson(_)
\* The value that the text JSON.stringify(x) denotes: NaN becomes null, an
\* undefined property is left out, an undefined array element becomes null
ToJson(x) ==
    CASE x.t = "nan" -> Null
      [] x.t = "array" ->
            Arr([i \in DOMAIN x.v |->
                    IF x.v[i].t = "undefined" THEN Null ELSE ToJson(x.v[i])])
      [] x.t = "object" ->
            Obj([k \in {j \in DOMAIN x.v : x.v[j].t # "undefined"} |-> ToJson(x.v[k])])
      [] OTHER -> x

\* JSON.stringify(value): a text, held as the JSON value it denotes
JSON_stringify(value) == [json |-> ToJson(value)]

\* A text that is not JSON
Garbage == [garbage |-> "{oops"]

\* JSON.parse(text)
JSON_parse(text) == IF "json" \in DOMAIN text THEN text.json ELSE Throws

\* setValidationStatus / setSyncStatus: the text and the level of the class
PanelStatus(message, level) == [text |-> message, level |-> level]

RECURSIVE Join(_, _)
\* array.join(separator) of strings
Join(strings, separator) ==
    IF Len(strings) = 0 THEN ""
    ELSE IF Len(strings) = 1 THEN strings[1]
    ELSE strings[1] \o separator \o Join(Tail(strings), separator)

-----------------------------------------------------------------------------
(* management.js: constants.                                               *)

defaultState ==
    Obj([ teamName |-> Str("Peanuts Club"),
          lineup |-> Arr(<<
              Obj([name |-> Str("Ivy Sparks"), position |-> Str("CF")]),
              Obj([name |-> Str("Gale Torres"), position |-> Str("SS")]),
              Obj([name |-> Str("Kip Lantern"), position |-> Str("RF")]),
              Obj([name |-> Str("River Ocho"), position |-> Str("1B")]),
              Obj([name |-> Str("Juniper Vail"), position |-> Str("LF")]),
              Obj([name |-> Str("Hani Croft"), position |-> Str("3B")]),
              Obj([name |-> Str("Marlow Quinn"), position |-> Str("2B")]),
              Obj([name |-> Str("Tamsin Reed"), position |-> Str("C")]),
              Obj([name |-> Str("Noah Calder"), position |-> Str("DH")]) >>),
          rotation |-> Arr(<<
              Obj([name |-> Str("Cy Lumen"), role |-> Str("SP")]),
              Obj([name |-> Str("Rosa Hallow"), role |-> Str("SP")]),
              Obj([name |-> Str("Dylan Ash"), role |-> Str("SP")]),
              Obj([name |-> Str("Mia Cortez"), role |-> Str("RP")]),
              Obj([name |-> Str("Khalil Snow"), role |-> Str("RP")]) >>),
          economics |-> Obj([
              ticketPrice |-> Num(24),
              promotions |-> Obj([ fireworks |-> Bool(TRUE), kidsDay |-> Bool(FALSE),
                                   themeNight |-> Bool(TRUE), giveaway |-> Bool(FALSE) ]),
              concessions |-> Obj(("Peanuts" :> Num(6)) @@ ("Crackerjacks" :> Half(15))
                                  @@ ("Soda" :> Num(4)) @@ ("Local Brew" :> Num(8))) ]) ])

REQUIRED_POSITIONS == <<"C", "1B", "2B", "3B", "SS", "LF", "CF", "RF">>
MIN_LINEUP_SIZE == 9
ROTATION_RULES == [starters |-> 3, relievers |-> 2]
PROMOTION_COSTS == [fireworks |-> 15000, kidsDay |-> 5000,
                    themeNight |-> 8000, giveaway |-> 12000]
BASE_CASH == 250000

\* The keys state.economics.promotions can have in the model, in the order
\* Object.entries yields them: those of defaultState, then a key added later
PromotionKeys == <<"fireworks", "kidsDay", "themeNight", "giveaway", "bobblehead">>

\* The keys state.economics.concessions can have in the model
ConcessionItems == <<"Peanuts", "Crackerjacks", "Soda", "Local Brew">>

\* The messages of validateState
LineupTooShort == "Lineup must include " \o ToString(MIN_LINEUP_SIZE) \o " players"
BudgetRisk == "Budget risk: cash would fall dangerously low with current plan"
LightOnStarters ==
    "Rotation light on starters (need " \o ToString(ROTATION_RULES.starters) \o ")"
LightOnRelief ==
    "Rotation light on relief (" \o ToString(ROTATION_RULES.relievers) \o "+ suggested)"
PromotionsExceedRevenue == "Promotions exceed projected revenue; expect a cash hit"

-----------------------------------------------------------------------------
(* management.js: state, local storage and the bridge file.                *)

\* mergeState(base, incoming); incoming.economics throws on null
mergeState(base, incoming) ==
    IF incoming.t \in {"null", "undefined"} THEN Throws
    ELSE LET baseEconomics == Get(base, "economics")
             economics == Get(incoming, "economics")
         IN  Obj( ("economics" :>
                     Obj( [ promotions |->
                              Spread(clone(Get(baseEconomics, "promotions")),
                                     clone(Or(Get(economics, "promotions"), EmptyObj))),
                            concessions |->
                              Spread(clone(Get(baseEconomics, "concessions")),
                                     clone(Or(Get(economics, "concessions"), EmptyObj))) ]
                          @@ Spread(clone(baseEconomics),
                                    clone(Or(economics, EmptyObj))).v ))
                  @@ Spread(clone(base), clone(incoming)).v )

\* array.map((entry) => ({ name: entry.name, [field]: entry[field] || fallback })),
\* which throws when array has no map or an entry is null or undefined
MapEntries(array, field, fallback) ==
    IF array.t # "array" THEN Throws
    ELSE IF \E i \in DOMAIN array.v : array.v[i].t \in {"null", "undefined"} THEN Throws
    ELSE Arr([i \in DOMAIN array.v |->
                Obj(("name" :> Get(array.v[i], "name"))
                    @@ (field :> IF fallback = Undefined THEN Get(array.v[i], field)
                                 ELSE Or(Get(array.v[i], field), fallback)))])

\* Object.fromEntries(keys.map((key) => [key, true])), which throws when keys
\* is not an array
FlagsOf(keys) ==
    IF keys.t # "array" THEN Throws
    ELSE Obj([k \in {Text(keys.v[i]) : i \in DOMAIN keys.v} |-> Bool(TRUE)])

\* normalizeBridgePayload(payload)
normalizeBridgePayload(payload) ==
    IF ~Truthy(payload) \/ payload.t \notin {"object", "array"} THEN Null
    ELSE LET economics == Or(Get(payload, "finance"), Or(Get(payload, "economics"), EmptyObj))
             team == Or(Get(payload, "team"), EmptyObj)
             lineup == IF Get(team, "lineup").t = "array"
                       THEN MapEntries(Get(team, "lineup"), "position", Undefined)
                       ELSE clone(Get(defaultState, "lineup"))
             rotation == IF Get(team, "rotation").t = "array"
                         THEN MapEntries(Get(team, "rotation"), "role", Str("SP"))
                         ELSE clone(Get(defaultState, "rotation"))
             flags == FlagsOf(Or(Get(economics, "promotions"), Arr(<<>>)))
         IN  IF Throws \in {lineup, rotation, flags} THEN Throws
             ELSE Obj([
                 teamName |-> Or(Get(team, "name"),
                                 Or(Get(payload, "teamName"), Get(defaultState, "teamName"))),
                 lineup |-> lineup,
                 rotation |-> rotation,
                 economics |-> Obj([
                     ticketPrice |->
                         Number(Nullish(Get(economics, "ticket_price"),
                                Nullish(Get(economics, "ticketPrice"),
                                        Get(Get(defaultState, "economics"), "ticketPrice")))),
                     promotions |->
                         Spread(clone(Get(Get(defaultState, "economics"), "promotions")), flags),
                     concessions |->
                         Or(Get(economics, "concessions_pricing"),
                            Or(Get(economics, "concessions"),
                               clone(Get(Get(defaultState, "economics"), "concessions")))) ]) ])

\* loadLocalState, given what localStorage.getItem('managerState') returned
loadLocalState(raw) ==
    IF raw = Null THEN Null
    ELSE LET parsed == JSON_parse(raw)
             merged == mergeState(defaultState, parsed)
         IN  IF parsed = Throws \/ merged = Throws THEN Null ELSE merged

\* loadBridgeFile, given how the fetch of manager_state.json ended
loadBridgeFile(response) ==
    IF response.kind # "ok" THEN Null
    ELSE LET payload == JSON_parse(response.body)
             normalized == normalizeBridgePayload(payload)
         IN  IF payload = Throws \/ normalized = Throws THEN Null ELSE normalized

\* The keys of state.economics.promotions whose flag is set, in entry order
ActivePromotions(s) ==
    LET promotions == Get(Get(s, "economics"), "promotions").v
    IN  SelectSeq(PromotionKeys,
                  LAMBDA key : key \in DOMAIN promotions /\ Truthy(promotions[key]))

\* PROMOTION_COSTS[key] || 0
PromotionCost(key) ==
    IF key \in DOMAIN PROMOTION_COSTS THEN PROMOTION_COSTS[key] ELSE 0

RECURSIVE SpendFrom(_, _)
\* reduce((sum, [key]) => sum + (PROMOTION_COSTS[key] || 0), 0) over the
\* entries of promotions whose flag is set, from the entry numbered from
SpendFrom(promotions, from) ==
    IF from > Len(PromotionKeys) THEN 0
    ELSE (IF /\ PromotionKeys[from] \in DOMAIN promotions
             /\ Truthy(promotions[PromotionKeys[from]])
          THEN PromotionCost(PromotionKeys[from]) ELSE 0)
         + SpendFrom(promotions, from + 1)

\* promoEntries.reduce((sum, [key]) => sum + (PROMOTION_COSTS[key] || 0), 0)
PromotionSpend(s) == SpendFrom(Get(Get(s, "economics"), "promotions").v, 1)

\* a payload that lists every promotion key, whatever its flag
PayloadListsEveryPromotion(s) ==
    LET economics == Get(s, "economics")
        every == SelectSeq(PromotionKeys,
                           LAMBDA key : key \in DOMAIN Get(economics, "promotions").v)
    IN  Obj([ version |-> Str("1.0.0"),
              team |-> Obj([ id |-> Str("peanuts-user-club"),
                             name |-> Get(s, "teamName"),
                             lineup |-> clone(Get(s, "lineup")),
                             rotation |-> clone(Get(s, "rotation")) ]),
              finance |-> Obj([
                  ticket_price |-> Number(Or(Get(economics, "ticketPrice"), Num(0))),
                  promotions |-> Arr([i \in DOMAIN every |-> Str(every[i])]),
                  concessions_pricing |->
                      Obj([item \in DOMAIN Get(economics, "concessions").v |->
                             Number(Or(Get(economics, "concessions").v[item], Num(0)))]),
                  cash_on_hand |-> Num(BASE_CASH),
                  revenue |-> Obj([ gate |->
                      Times(Number(Or(Get(economics, "ticketPrice"), Num(0))), 5000) ]),
                  expenses |-> Obj([ promotions |-> Num(PromotionSpend(s)) ]) ]) ])

\* getBridgePayload(), for the state s
getBridgePayload(s) ==
    LET economics == Get(s, "economics")
        promoEntries == ActivePromotions(s)
    IN  Obj([ version |-> Str("1.0.0"),
              team |-> Obj([ id |-> Str("peanuts-user-club"),
                             name |-> Get(s, "teamName"),
                             lineup |-> clone(Get(s, "lineup")),
                             rotation |-> clone(Get(s, "rotation")) ]),
              finance |-> Obj([
                  ticket_price |-> Number(Or(Get(economics, "ticketPrice"), Num(0))),
                  promotions |-> Arr([i \in DOMAIN promoEntries |-> Str(promoEntries[i])]),
                  concessions_pricing |->
                      Obj([item \in DOMAIN Get(economics, "concessions").v |->
                             Number(Or(Get(economics, "concessions").v[item], Num(0)))]),
                  cash_on_hand |-> Num(BASE_CASH),
                  revenue |-> Obj([ gate |->
                      Times(Number(Or(Get(economics, "ticketPrice"), Num(0))), 5000) ]),
                  expenses |-> Obj([ promotions |-> Num(PromotionSpend(s)) ]) ]) ])

-----------------------------------------------------------------------------
(* management.js: validation.                                              *)

RECURSIVE HalvesFrom(_, _)
\* reduce((sum, value) => sum + Number(value || 0), 0) over the values of
\* concessions from the item numbered from, in halves of a dollar
HalvesFrom(concessions, from) ==
    IF from > Len(ConcessionItems) THEN 0
    ELSE (IF ConcessionItems[from] \in DOMAIN concessions
          THEN HalvesOf(Number(Or(concessions[ConcessionItems[from]], Num(0))))
          ELSE 0)
         + HalvesFrom(concessions, from + 1)

\* Math.max(Object.keys(state.economics.concessions).length, 1)
ConcessionCount(s) ==
    IF Cardinality(DOMAIN Get(Get(s, "economics"), "concessions").v) > 1
    THEN Cardinality(DOMAIN Get(Get(s, "economics"), "concessions").v) ELSE 1

\* estimatedBudget().estimatedRevenue, in whole dollars.  Every concession
\* price of the model is a number or NaN, so Number(value || 0) is a number;
\* with the sums in halves, ticketRevenue + concessionsRevenue is
\* (ticket * 5000 * count + concessions * 1800) / (2 * count), and
\* Math.round(q) is floor(q + 1/2).
EstimatedRevenue(s) ==
    ( HalvesOf(Number(Or(Get(Get(s, "economics"), "ticketPrice"), Num(0))))
        * 5000 * ConcessionCount(s)
      + HalvesFrom(Get(Get(s, "economics"), "concessions").v, 1) * 1800
      + ConcessionCount(s) )
    \div (2 * ConcessionCount(s))

\* estimatedBudget()
estimatedBudget(s) ==
    [ promoSpend |-> PromotionSpend(s),
      estimatedRevenue |-> EstimatedRevenue(s),
      net |-> BASE_CASH + EstimatedRevenue(s) - PromotionSpend(s) ]

\* state.lineup.map and state.rotation.filter find arrays
Validates(s) == Get(s, "lineup").t = "array" /\ Get(s, "rotation").t = "array"

RECURSIVE MissingFrom(_, _)
\* The messages REQUIRED_POSITIONS.forEach pushes, from the position
\* numbered from
MissingFrom(lineup, from) ==
    IF from > Len(REQUIRED_POSITIONS) THEN <<>>
    ELSE (IF \E i \in DOMAIN lineup.v :
                Get(lineup.v[i], "position") = Str(REQUIRED_POSITIONS[from])
          THEN <<>>
          ELSE <<"Missing " \o REQUIRED_POSITIONS[from] \o " in lineup">>)
         \o MissingFrom(lineup, from + 1)

\* The number of pitchers of the rotation whose role is (starters) or is
\* not (relievers) 'SP'
Pitchers(rotation, starters) ==
    Cardinality({i \in DOMAIN rotation.v :
                    (Get(rotation.v[i], "role") = Str("SP")) = starters})

\* validateState().issues
Issues(s) ==
    (IF Len(Get(s, "lineup").v) < MIN_LINEUP_SIZE THEN <<LineupTooShort>> ELSE <<>>)
    \o MissingFrom(Get(s, "lineup"), 1)
    \o (IF 2 * estimatedBudget(s).net < BASE_CASH THEN <<BudgetRisk>> ELSE <<>>)

\* validateState().warnings
Warnings(s) ==
    (IF Pitchers(Get(s, "rotation"), TRUE) < ROTATION_RULES.starters
     THEN <<LightOnStarters>> ELSE <<>>)
    \o (IF Pitchers(Get(s, "rotation"), FALSE) < ROTATION_RULES.relievers
        THEN <<LightOnRelief>> ELSE <<>>)
    \o (IF estimatedBudget(s).promoSpend > estimatedBudget(s).estimatedRevenue
        THEN <<PromotionsExceedRevenue>> ELSE <<>>)

\* validateState(), which throws when state.lineup or state.rotation is not
\* an array
validateState(s) ==
    IF ~Validates(s) THEN Throws
    ELSE [issues |-> Issues(s), warnings |-> Warnings(s)]

\* The separator of the joined messages, a bullet between spaces, in ASCII
Bullet == " * "

\* updateValidation(): the validation status it sets, or Throws.  The set
\* of one element binds the result of the one call of validateState.
updateValidation(s) ==
    CHOOSE status \in
        { IF checked = Throws THEN Throws
          ELSE IF Len(checked.issues) > 0
          THEN PanelStatus(Join(checked.issues, Bullet), "error")
          ELSE IF Len(checked.warnings) > 0
          THEN PanelStatus(Join(checked.warnings, Bullet), "warning")
          ELSE PanelStatus("Lineup, rotation, and budget checks look solid.", "success")
          : checked \in {validateState(s)} } : TRUE

\* The rows list.forEach appends before it ends or throws: forEach throws
\* at once when list is not an array, the callback at a null entry
RowsBuilt(list) ==
    IF list.t # "array" THEN 0
    ELSE LET bad == {i \in DOMAIN list.v : list.v[i].t \in {"null", "undefined"}}
         IN  IF bad = {} THEN Len(list.v)
             ELSE (CHOOSE i \in bad : \A j \in bad : i <= j) - 1

\* renderLineup() or renderRotation() runs to its end
Renders(list) == list.t = "array" /\ RowsBuilt(list) = Len(list.v)

\* renderAll(), from the rows shown: renderLineup, then renderRotation; a
\* throw ends it
renderAll(s, shown) ==
    IF ~Renders(Get(s, "lineup"))
    THEN [ threw |-> TRUE,
           rows |-> [shown EXCEPT !.lineup = RowsBuilt(Get(s, "lineup"))] ]
    ELSE [ threw |-> ~Renders(Get(s, "rotation")),
           rows |-> [ lineup |-> RowsBuilt(Get(s, "lineup")),
                      rotation |-> RowsBuilt(Get(s, "rotation")) ] ]

-----------------------------------------------------------------------------
(* management.js: what the user, the embedding page and the files supply.  *)

\* Lineup and rotation rows the user edits, and what is typed or selected
LineupRows == {8}
RotationRows == {3}
NameInputs == {"Zed"}
PositionInputs == {"DH"}
RoleInputs == {"RP"}

\* Promotion checkboxes the user toggles
ToggledPromotions == {"fireworks"}

\* ticketInput.value and a concession input's value, as Number() reads them
TicketInputs == {Str("")}
ConcessionInputs == [item : {"Soda"}, value : {Str("4.5")}]

\* Arguments of managerInterface.setLineup: a lineup of one entry with a
\* field the panel does not keep, and one whose entry is null
LineupArguments ==
    { Arr(<<Obj([name |-> Str("Solo"), position |-> Str("C"), bats |-> Str("L")])>>),
      Arr(<<Null>>) }

\* Arguments of managerInterface.setRotation: an entry without a role
RotationArguments == { Arr(<<Obj([name |-> Str("Ace")])>>) }

\* Arguments of managerInterface.setEconomicPlan
EconomicPlans ==
    { Obj([ticketPrice |-> Str("abc"), concessions |-> Obj([Soda |-> Str("4.5")])]),
      Obj([promotions |-> Obj([bobblehead |-> Bool(TRUE)])]) }

\* A bridge file written by another club's simulator
ForeignBridge ==
    Obj([ version |-> Str("1.0.0"),
          team |-> Obj([ name |-> Str("Aces") ]),
          finance |-> Obj([ promotions |-> Arr(<<Str("bobblehead")>>) ]) ])

\* A bridge file whose lineup holds a null entry
MalformedBridge == Obj([ team |-> Obj([ lineup |-> Arr(<<Null>>) ]) ])

\* Texts of the files offered to the upload input, besides the file the
\* panel would export now: a text that is not JSON, the JSON of a number,
\* and two bridge files on which normalizeBridgePayload throws, one for its
\* null lineup entry and one for promotions that are not an array
UploadFiles ==
    { Garbage, JSON_stringify(Num(42)), JSON_stringify(MalformedBridge),
      JSON_stringify(Obj([ finance |->
          Obj([ promotions |-> Obj([ fireworks |-> Bool(TRUE) ]) ]) ])) }

\* How the fetch of manager_state.json ends
BridgeResponses ==
    { [kind |-> "rejected"], [kind |-> "not_ok"],
      [kind |-> "ok", body |-> Garbage],
      [kind |-> "ok", body |-> JSON_stringify(MalformedBridge)],
      [kind |-> "ok", body |-> JSON_stringify(ForeignBridge)] }

\* A state an earlier session left in local storage: the fireworks
\* switched off
EarlierState ==
    Obj([defaultState.v EXCEPT !["economics"] =
            Obj([@.v EXCEPT !["promotions"] = Obj([@.v EXCEPT !["fireworks"] = Bool(FALSE)])])])

\* What local storage holds under 'managerState' when the page loads:
\* nothing, a text that is not JSON, the text null, an earlier state, or an
\* object whose lineup is null
StoredItems ==
    { Null, Garbage, JSON_stringify(Null), JSON_stringify(EarlierState),
      JSON_stringify(Obj([lineup |-> Null])) }

-----------------------------------------------------------------------------
(* management.js: the state machine.                                       *)

\* state with state.<list>[idx].<field> = value
WithEntry(s, list, idx, field, value) ==
    Obj([s.v EXCEPT ![list] =
            Arr([@.v EXCEPT ![idx] = Obj((field :> value) @@ @.v)])])

\* state with state.economics.<key> = value
WithEconomics(s, key, value) ==
    Obj([s.v EXCEPT !["economics"] = Obj((key :> value) @@ @.v)])

\* The state once the script has run: the lists are rendered from
\* defaultState and bootstrapState is awaiting the fetch of the bridge file,
\* having read local storage.  The two status elements are as the page's
\* markup leaves them.
InitManager ==
    /\ state = clone(defaultState)
    /\ storage \in StoredItems
    /\ bootRaw = storage
    /\ bootstrap = "pending"
    /\ earlyOps = 0
    /\ rendered = renderAll(defaultState, [lineup |-> 0, rotation |-> 0]).rows
    /\ syncStatus = PanelStatus("", "")
    /\ validationStatus = PanelStatus("", "")
    /\ uploadValue = ""

\* No upload is under way.  The file of an upload is read (file.text())
\* before the next operation of the user is handled.
NoFileChosen == uploadValue = ""

\* err.message of an error thrown by JSON.parse or by a property access: its
\* wording is the engine's
ErrMessage == "(the engine's message)"

\* An operation of the panel is handled; those handled while the fetch of
\* the bridge file is pending are counted, up to MaxEarlyOps
Handled ==
    /\ bootstrap = "pending" => earlyOps < MaxEarlyOps
    /\ earlyOps' = IF bootstrap = "pending" THEN earlyOps + 1 ELSE earlyOps

\* a persist() that writes the state as it was before the handler ran
PersistsEarlierState(s) ==
    /\ storage' = JSON_stringify(state)
    /\ syncStatus' = PanelStatus("Local changes pending simulator sync", "warning")
    /\ validationStatus' = IF Validates(s) THEN updateValidation(s)
                           ELSE validationStatus

\* persist(), with s the state it finds.  When updateValidation throws, the
\* validation status stays and the handler ends there.
persist(s) ==
    /\ storage' = JSON_stringify(s)
    /\ syncStatus' = PanelStatus("Local changes pending simulator sync", "warning")
    /\ validationStatus' = IF Validates(s) THEN updateValidation(s)
                           ELSE validationStatus

\* An edit of a rendered row reaches an entry of the list
Editable(list, idx) ==
    /\ idx <= rendered[list]
    /\ Get(state, list).t = "array"
    /\ idx \in DOMAIN Get(state, list).v

\* nameInput input, lineup row idx
LineupName(idx, value) ==
    /\ NoFileChosen
    /\ Editable("lineup", idx)
    /\ state' = WithEntry(state, "lineup", idx, "name", Str(value))
    /\ persist(state')
    /\ Handled
    /\ UNCHANGED <<bootRaw, bootstrap, rendered, uploadValue>>
    /\ UNCHANGED <<vvars, nvars>>

\* positionSelect change, lineup row idx
LineupPosition(idx, value) ==
    /\ NoFileChosen
    /\ Editable("lineup", idx)
    /\ state' = WithEntry(state, "lineup", idx, "position", Str(value))
    /\ persist(state')
    /\ Handled
    /\ UNCHANGED <<bootRaw, bootstrap, rendered, uploadValue>>
    /\ UNCHANGED <<vvars, nvars>>

\* nameInput input, rotation row idx
RotationName(idx, value) ==
    /\ NoFileChosen
    /\ Editable("rotation", idx)
    /\ state' = WithEntry(state, "rotation", idx, "name", Str(value))
    /\ persist(state')
    /\ Handled
    /\ UNCHANGED <<bootRaw, bootstrap, rendered, uploadValue>>
    /\ UNCHANGED <<vvars, nvars>>

\* roleSelect change, rotation row idx
RotationRole(idx, value) ==
    /\ NoFileChosen
    /\ Editable("rotation", idx)
    /\ state' = WithEntry(state, "rotation", idx, "role", Str(value))
    /\ persist(state')
    /\ Handled
    /\ UNCHANGED <<bootRaw, bootstrap, rendered, uploadValue>>
    /\ UNCHANGED <<vvars, nvars>>

\* checkbox change of the promotion promoKey
TogglePromotion(promoKey, checked) ==
    /\ NoFileChosen
    /\ promoKey \in DOMAIN Get(Get(state, "economics"), "promotions").v
    /\ state' = WithEconomics(state, "promotions",
                    Obj((promoKey :> Bool(checked))
                        @@ Get(Get(state, "economics"), "promotions").v))
    /\ persist(state')
    /\ Handled
    /\ UNCHANGED <<bootRaw, bootstrap, rendered, uploadValue>>
    /\ UNCHANGED <<vvars, nvars>>

\* input of the concession item
ConcessionPrice(item, value) ==
    /\ NoFileChosen
    /\ item \in DOMAIN Get(Get(state, "economics"), "concessions").v
    /\ state' = WithEconomics(state, "concessions",
                    Obj((item :> Number(value))
                        @@ Get(Get(state, "economics"), "concessions").v))
    /\ persist(state')
    /\ Handled
    /\ UNCHANGED <<bootRaw, bootstrap, rendered, uploadValue>>
    /\ UNCHANGED <<vvars, nvars>>

\* ticketInput input
TicketPrice(value) ==
    /\ NoFileChosen
    /\ state' = WithEconomics(state, "ticketPrice", Number(value))
    /\ persist(state')
    /\ Handled
    /\ UNCHANGED <<bootRaw, bootstrap, rendered, uploadValue>>
    /\ UNCHANGED <<vvars, nvars>>

\* managerInterface.setLineup(lineup): persist(), then renderLineup()
setLineup(lineup) ==
    /\ NoFileChosen
    /\ LET entries == MapEntries(lineup, "position", Undefined)
       IN  IF entries = Throws THEN UNCHANGED vars
           ELSE /\ state' = Obj([state.v EXCEPT !["lineup"] = entries])
                /\ persist(state')
                /\ rendered' = IF ~Validates(state') THEN rendered
                               ELSE [rendered EXCEPT !.lineup = Len(entries.v)]
                /\ Handled
                /\ UNCHANGED <<bootRaw, bootstrap, uploadValue>>
                /\ UNCHANGED <<vvars, nvars>>

\* managerInterface.setRotation(rotation): persist(), then renderRotation()
setRotation(rotation) ==
    /\ NoFileChosen
    /\ LET entries == MapEntries(rotation, "role", Str("SP"))
       IN  IF entries = Throws THEN UNCHANGED vars
           ELSE /\ state' = Obj([state.v EXCEPT !["rotation"] = entries])
                /\ persist(state')
                /\ rendered' = IF ~Validates(state') THEN rendered
                               ELSE [rendered EXCEPT !.rotation = Len(entries.v)]
                /\ Handled
                /\ UNCHANGED <<bootRaw, bootstrap, uploadValue>>
                /\ UNCHANGED <<vvars, nvars>>

\* managerInterface.setEconomicPlan(plan)
setEconomicPlan(plan) ==
    /\ NoFileChosen
    /\ LET economics == Get(state, "economics")
           priced == IF Get(plan, "ticketPrice") # Undefined
                     THEN Obj(("ticketPrice" :> Number(Get(plan, "ticketPrice"))) @@ economics.v)
                     ELSE economics
           promoted == IF Truthy(Get(plan, "promotions"))
                       THEN Obj(("promotions" :> Spread(Get(priced, "promotions"),
                                                        Get(plan, "promotions"))) @@ priced.v)
                       ELSE priced
           planned == IF Truthy(Get(plan, "concessions"))
                      THEN Obj(("concessions" :> Spread(Get(promoted, "concessions"),
                                                        Get(plan, "concessions"))) @@ promoted.v)
                      ELSE promoted
       IN  /\ state' = Obj([state.v EXCEPT !["economics"] = planned])
           /\ persist(state')
           /\ Handled
           /\ UNCHANGED <<bootRaw, bootstrap, rendered, uploadValue>>
    /\ UNCHANGED <<vvars, nvars>>

\* downloadButton click: downloadBridgePayload()
Download ==
    /\ NoFileChosen
    /\ syncStatus' = PanelStatus("Synced: manager_state.json downloaded for the simulator.",
                                 "success")
    /\ Handled
    /\ UNCHANGED <<state, storage, bootRaw, bootstrap, rendered, validationStatus,
                   uploadValue>>
    /\ UNCHANGED <<vvars, nvars>>

\* The user picks a file: the browser sets uploadInput.value to its path
\* and fires change; the handler awaits file.text()
ChooseFile ==
    /\ NoFileChosen
    /\ uploadValue' = "C:\\fakepath\\manager_state.json"
    /\ UNCHANGED <<state, storage, bootRaw, bootstrap, earlyOps, rendered, syncStatus,
                   validationStatus>>
    /\ UNCHANGED <<vvars, nvars>>

\* an upload handler without its finally block
UploadKeepsFile(text) ==
    /\ ~NoFileChosen
    /\ JSON_parse(text) = Throws
    /\ validationStatus' = PanelStatus("Unable to read file: " \o ErrMessage, "error")
    /\ Handled
    /\ UNCHANGED <<state, storage, bootRaw, bootstrap, rendered, syncStatus, uploadValue>>
    /\ UNCHANGED <<vvars, nvars>>

\* uploadInput change handler, once file.text() has resolved to text
Upload(text) ==
    /\ ~NoFileChosen
    /\ uploadValue' = ""
    /\ Handled
    /\ UNCHANGED <<bootRaw, bootstrap>>
    /\ UNCHANGED <<vvars, nvars>>
    /\ LET parsed == JSON_parse(text)
           incoming == IF parsed = Throws THEN Throws ELSE normalizeBridgePayload(parsed)
       IN  IF Throws \in {parsed, incoming}
           THEN /\ validationStatus' =
                       PanelStatus("Unable to read file: " \o ErrMessage, "error")
                /\ UNCHANGED <<state, storage, rendered, syncStatus>>
           ELSE IF ~Truthy(incoming)
           THEN UNCHANGED <<state, storage, rendered, syncStatus, validationStatus>>
           ELSE /\ state' = mergeState(defaultState, incoming)
                /\ storage' = JSON_stringify(state')
                /\ validationStatus' = updateValidation(state')
                /\ rendered' = renderAll(state', rendered).rows
                /\ syncStatus' = PanelStatus("Bridge file loaded. Local changes pending sync.",
                                             "info")

\* The text of the file downloadBridgePayload writes for the present state
ExportedNow == JSON_stringify(getBridgePayload(state))

\* bootstrapState resumes after Promise.all: the fetch of the bridge file
\* ended with response.  renderAll() may throw, and then neither status is set.
BootstrapCompletes(response) ==
    /\ bootstrap = "pending"
    /\ LET fileState == loadBridgeFile(response)
           localState == loadLocalState(bootRaw)
       IN  state' = mergeState(defaultState, Or(fileState, Or(localState, defaultState)))
    /\ rendered' = renderAll(state', rendered).rows
    /\ IF renderAll(state', rendered).threw
       THEN /\ bootstrap' = "threw"
            /\ UNCHANGED <<validationStatus, syncStatus>>
       ELSE /\ bootstrap' = "done"
            /\ validationStatus' = updateValidation(state')
            /\ syncStatus' = PanelStatus("Ready for sync. Download to share with the simulator.",
                                         "info")
    /\ bootRaw' = Undefined
    /\ earlyOps' = 0
    /\ UNCHANGED <<storage, uploadValue>>
    /\ UNCHANGED <<vvars, nvars>>

\* The operations that change the state on user input
UserMutation ==
    \/ \E idx \in LineupRows, value \in NameInputs : LineupName(idx, value)
    \/ \E idx \in LineupRows, value \in PositionInputs : LineupPosition(idx, value)
    \/ \E idx \in RotationRows, value \in NameInputs : RotationName(idx, value)
    \/ \E idx \in RotationRows, value \in RoleInputs : RotationRole(idx, value)
    \/ \E promoKey \in ToggledPromotions, checked \in BOOLEAN :
          TogglePromotion(promoKey, checked)
    \/ \E input \in ConcessionInputs : ConcessionPrice(input.item, input.value)
    \/ \E value \in TicketInputs : TicketPrice(value)
    \/ \E lineup \in LineupArguments : setLineup(lineup)
    \/ \E rotation \in RotationArguments : setRotation(rotation)
    \/ \E plan \in EconomicPlans : setEconomicPlan(plan)
    \/ \E text \in UploadFiles \cup {ExportedNow} : Upload(text)

-----------------------------------------------------------------------------
(* Specifications.                                                         *)

\* The value of a variable whose script is not loaded
NotLoaded == [t |-> "not loaded"]

ViewerNotLoaded ==
    /\ events = NotLoaded /\ currentIndex = NotLoaded /\ playing = NotLoaded
    /\ sinceTick = NotLoaded /\ tickDelay = NotLoaded /\ feedVersion = NotLoaded
    /\ log = NotLoaded /\ feedStatus = NotLoaded /\ playPauseText = NotLoaded
    /\ requests = NotLoaded /\ polling = NotLoaded /\ issued = NotLoaded
    /\ lastLoad = NotLoaded

PanelNotLoaded ==
    /\ state = NotLoaded /\ storage = NotLoaded /\ bootRaw = NotLoaded
    /\ bootstrap = NotLoaded /\ earlyOps = NotLoaded /\ rendered = NotLoaded
    /\ syncStatus = NotLoaded
    /\ validationStatus = NotLoaded /\ uploadValue = NotLoaded

NormalizerNotLoaded == call = NotLoaded /\ returned = NotLoaded

\* The viewer: frames, controls, polls and feed responses in any order
Init == InitViewer /\ PanelNotLoaded /\ NormalizerNotLoaded

Next ==
    \/ Frame
    \/ PlayPause
    \/ Step
    \/ Skip
    \/ Speed
    \/ Poll
    \/ \E r \in DOMAIN requests, failure \in FetchFailures : FeedFails(r, failure)
    \/ \E r \in DOMAIN requests, payload \in Payloads : FeedArrives(r, payload)

Spec == Init /\ [][Next]_vars

\* The feed documents that are objects
FeedObjects == Payloads \ {Null}

\* The entries appended by rendering events from+1 .. to of evs, in order
Rendered(evs, from, to) == [i \in 1..(to - from) |-> LogEntry(evs[from + i])]

\* The viewer left alone with a loaded feed: the first load has applied a
\* feed with events, the controls have brought the viewer to any position,
\* playing or paused, at either speed, and from here on only animation
\* frames arrive (no click, no feed response).
InitPlayback ==
    /\ \E payload \in FeedObjects :
          /\ Len(EventsOf[payload]) > 0
          /\ events = EventsOf[payload]
          /\ feedVersion = Str(VersionOf[payload])
          /\ feedStatus = applyEvents(EventsOf[payload]).feedStatus
          /\ lastLoad = [outcome |-> "applied", payload |-> payload]
    /\ currentIndex \in 1..Len(events)
    /\ log = Rendered(events, 0, currentIndex)
    /\ playing \in BOOLEAN
    /\ playPauseText = IF playing THEN "Pause" ELSE "Play"
    /\ sinceTick \in {NoTick} \cup 0..MaxDelay
    /\ tickDelay \in Speeds
    /\ requests = <<>>
    /\ polling = TRUE
    /\ issued = 1
    /\ PanelNotLoaded /\ NormalizerNotLoaded

\* requestAnimationFrame(loop) is renewed by every frame, so frames keep
\* arriving
PlaybackSpec == InitPlayback /\ [][Frame]_vars /\ WF_vars(Frame)

\* The viewer once its first load has applied a feed: no call of loadEvents
\* is waiting, and the calls that refreshLoop makes from here on are counted
\* afresh.
InitPolling ==
    /\ \E payload \in FeedObjects :
          /\ events = EventsOf[payload]
          /\ feedVersion = Str(VersionOf[payload])
          /\ feedStatus = applyEvents(EventsOf[payload]).feedStatus
          /\ currentIndex = applyEvents(EventsOf[payload]).player.currentIndex
          /\ playing = applyEvents(EventsOf[payload]).player.playing
          /\ log = applyEvents(EventsOf[payload]).player.log
          /\ playPauseText = applyEvents(EventsOf[payload]).player.playPauseText
          /\ lastLoad = [outcome |-> "applied", payload |-> payload]
    /\ sinceTick = NoTick
    /\ tickDelay \in Speeds
    /\ requests = <<>>
    /\ polling = TRUE
    /\ issued = 0
    /\ PanelNotLoaded /\ NormalizerNotLoaded

PollingSpec == InitPolling /\ [][Next]_vars

\* The management panel: edits, interface calls, download, upload and the
\* end of bootstrap in any order
InitPanel == InitManager /\ ViewerNotLoaded /\ NormalizerNotLoaded

PanelNext ==
    \/ UserMutation
    \/ Download
    \/ ChooseFile
    \/ \E response \in BridgeResponses : BootstrapCompletes(response)

ManagerSpec == InitPanel /\ [][PanelNext]_vars

-----------------------------------------------------------------------------
(* viewer.js: one call of normalizeEvent on its own.  A raw event is given *)
(* by the values it carries, one per field of the normalized event         *)
(* (Undefined for a field that is missing), and by its shape.              *)

\* The fields that are there
Present(f) == [k \in {k \in DOMAIN f : f[k] # Undefined} |-> f[k]]

\* An object of the nested shape, left out when it would have no field
Sub(f) == IF DOMAIN Present(f) = {} THEN Undefined ELSE Obj(Present(f))

\* The nested event carrying the values v: rawEvent.context.pitch_number,
\* rawEvent.context.count.before.balls, rawEvent.outcome.result, ...
NestedOf(v) ==
    Obj(Present([
        context |-> Obj(Present([
            pitch_number |-> v.number,
            batter |-> v.batter,
            count |-> Sub([ before |-> Sub([ balls |-> v.balls_before,
                                             strikes |-> v.strikes_before ]),
                            after |-> Sub([ balls |-> v.balls_after,
                                            strikes |-> v.strikes_after ]) ]),
            outs |-> Sub([ before |-> v.outs_before, after |-> v.outs_after ]),
            bases |-> Sub([ before |-> v.bases_before, after |-> v.bases_after ]),
            crowd |-> Sub([ energy_before |-> v.crowd_energy_before,
                            energy_after |-> v.crowd_energy_after ]) ])),
        outcome |-> Obj(Present([
            result |-> v.outcome,
            detail |-> v.detail,
            runs_scored |-> v.runs_scored,
            total_runs |-> v.total_runs,
            contact_quality |-> v.contact_quality ])),
        modifiers |-> Sub([ crowd |-> v.crowd_modifiers ]) ]))

\* Base arrays of two, three and four entries
ShortBases == Arr(<<Bool(TRUE), Bool(FALSE)>>)
TripleBases == Arr(<<Bool(TRUE), Bool(FALSE), Bool(TRUE)>>)
LongBases == Arr(<<Bool(FALSE), Bool(TRUE), Bool(TRUE), Bool(TRUE)>>)

\* The fields a feed writer fills in or leaves out together
OtherValues ==
    { [ batter |-> Undefined, outcome |-> Undefined, detail |-> Undefined,
        strikes_before |-> Undefined, strikes_after |-> Undefined,
        runs_scored |-> Undefined, total_runs |-> Undefined,
        contact_quality |-> Undefined, crowd_energy_before |-> Undefined,
        crowd_energy_after |-> Undefined, crowd_modifiers |-> Undefined ],
      [ batter |-> Str("Ivy Sparks"), outcome |-> Str("single"), detail |-> Str("line drive"),
        strikes_before |-> Num(1), strikes_after |-> Num(0),
        runs_scored |-> Num(1), total_runs |-> Num(4),
        contact_quality |-> Num(80), crowd_energy_before |-> Num(40),
        crowd_energy_after |-> Num(55),
        crowd_modifiers |-> Obj([wave |-> Num(2)]) ] }

\* The values of a raw event: every field is there or missing; a count can
\* also be null or 0, and the base arrays have any length
EventValues ==
    { [k \in DOMAIN other \cup DOMAIN counts |->
          IF k \in DOMAIN other THEN other[k] ELSE counts[k]] :
        other \in OtherValues,
        counts \in [ number : {Undefined, Num(7)},
                     balls_before : {Undefined, Null, Num(2)},
                     balls_after : {Undefined, Null, Num(0)},
                     outs_before : {Undefined, Num(1)},
                     outs_after : {Undefined, Num(2)},
                     bases_before : {Undefined, Null, ShortBases, TripleBases, LongBases},
                     bases_after : {Undefined, TripleBases, LongBases} ] }

\* The raw event of a call: nested, or flat with the values as its fields
\* (rawEvent.number, rawEvent.batter, ...)
RawEventOf(c) ==
    IF c.shape = "nested" THEN NestedOf(c.values) ELSE Obj(Present(c.values))

\* normalizeEvent(rawEvent, idx) is about to be called by the map of loadEvents
InitNormalize ==
    /\ call \in [values : EventValues, shape : {"nested", "flat"}, position : 1..MaxEvents]
    /\ returned = Undefined
    /\ ViewerNotLoaded /\ PanelNotLoaded

\* The call returns
Normalize ==
    /\ returned = Undefined
    /\ returned' = normalizeEvent(RawEventOf(call), call.position)
    /\ UNCHANGED <<call, vvars, mvars>>

NormalizeSpec == InitNormalize /\ [][Normalize]_vars

-----------------------------------------------------------------------------
(* Claims about the viewer, checked under Spec.                            *)

\* The call loadEvents() made at start-up is still awaiting its response
InitialLoadPending == \E r \in DOMAIN requests : ~requests[r].silent

\* The raw events of a payload, [] when it has none
RawOf(payload) == Or(Get(payload, "events"), Arr(<<>>)).v

\* C1: a silent poll whose payload has the fingerprint stored in feedVersion
\* leaves events, currentIndex, playing, the log, feedVersion and the feed
\* status as they were, and with them the playback clock and the button.
C1_SilentSameFeedChangesNothing ==
    [][\A r \in DOMAIN requests :
        (requests[r].silent /\ requests' = Succeeded(r)) =>
        LET payload == lastLoad'.payload IN
          ( /\ payload \in FeedObjects
            /\ Str(VersionOf[payload]) = feedVersion
            /\ FeedArrives(r, payload) )
          => UNCHANGED <<events, currentIndex, playing, log, feedVersion, feedStatus,
                         sinceTick, tickDelay, playPauseText>>]_vars

\* A silent poll found the stored fingerprint and the viewer is still
\* paused at the end of a feed of two events, which applying would have reset.
C1_Witness ==
    /\ lastLoad.outcome = "same"
    /\ Len(events) = 2 /\ currentIndex = 2 /\ Len(log) = 2
    /\ ~playing

\* C2: when fetchReplayPayload fails (fetch rejects, status not OK, body not
\* JSON) events, currentIndex, playing, the log and feedVersion are unchanged,
\* the feed status becomes an error, and the poll interval stays registered.
C2_FailedLoadFallsBack ==
    [][\A r \in DOMAIN requests, failure \in FetchFailures :
          FeedFails(r, failure)
          => /\ UNCHANGED <<events, currentIndex, playing, log, feedVersion>>
             /\ feedStatus'.state = "error"
             /\ feedStatus'.text = "Failed to load feed: " \o failure.message
             /\ polling']_vars

\* A load failed while a feed was on screen: the feed and the position are kept
C2_Witness ==
    /\ lastLoad.outcome = "failed"
    /\ feedStatus.state = "error"
    /\ feedVersion # Null
    /\ Len(events) = 2 /\ currentIndex >= 1 /\ Len(log) = currentIndex

\* C6 as stated: a silent poll with a new fingerprint replaces the feed
\* (null entries dropped), clears the log, stores the fingerprint, sets playing
\* to true and renders the first event (currentIndex = 1); with no events
\* currentIndex = 0, nothing is rendered and the status is an error.
C6_AsStated ==
    [][\A r \in DOMAIN requests :
        (requests[r].silent /\ requests' = Succeeded(r)) =>
        LET payload == lastLoad'.payload IN
          ( /\ payload \in FeedObjects
            /\ Str(VersionOf[payload]) # feedVersion
            /\ FeedArrives(r, payload) )
          => /\ events' = EventsOf[payload]
             /\ feedVersion' = Str(VersionOf[payload])
             /\ playing'
             /\ IF Len(events') > 0
                THEN currentIndex' = 1 /\ log' = <<LogEntry(events'[1])>>
                ELSE currentIndex' = 0 /\ log' = <<>> /\ feedStatus'.state = "error"]_vars

\* C6, amended: as stated, except that playing becomes true only if the new
\* feed has more than one event or none: a feed of exactly one event is at
\* its end once that event is rendered, and playing is false.
C6_NewFeedRestartsPlayback ==
    [][\A r \in DOMAIN requests :
        (requests[r].silent /\ requests' = Succeeded(r)) =>
        LET payload == lastLoad'.payload IN
          ( /\ payload \in FeedObjects
            /\ Str(VersionOf[payload]) # feedVersion
            /\ FeedArrives(r, payload) )
          => /\ Len(events') = Cardinality({i \in DOMAIN RawOf(payload) :
                                                RawOf(payload)[i] # Null})
             /\ \A i \in DOMAIN events' : events'[i] # Null
             /\ events' = EventsOf[payload]
             /\ feedVersion' = Str(VersionOf[payload])
             /\ playing' = (Len(events') # 1)
             /\ IF Len(events') > 0
                THEN currentIndex' = 1 /\ log' = <<LogEntry(events'[1])>>
                ELSE currentIndex' = 0 /\ log' = <<>> /\ feedStatus'.state = "error"]_vars

\* The initial load is still awaited, so the feed on screen was applied by a
\* silent poll; it has one event, which is rendered, and the viewer is paused.
C6_Witness ==
    /\ lastLoad.outcome = "applied"
    /\ InitialLoadPending
    /\ Len(events) = 1 /\ currentIndex = 1 /\ Len(log) = 1
    /\ ~playing /\ playPauseText = "Play"

\* C7: after a Step click playing is false; if an event remained,
\* currentIndex grew by exactly one and exactly one entry, that event's, was
\* appended to the log; otherwise currentIndex and the log are unchanged.
C7_StepAdvancesOne ==
    [][Step => /\ ~playing'
               /\ IF currentIndex < Len(events)
                  THEN /\ currentIndex' = currentIndex + 1
                       /\ log' = Append(log, LogEntry(events[currentIndex + 1]))
                  ELSE UNCHANGED <<currentIndex, log>>]_vars

\* Paused by Step in the middle of a feed of three events: two entries are
\* logged, the second is the second event's, and one event remains.
C7_Witness ==
    /\ ~playing /\ playPauseText = "Play"
    /\ Len(events) = 3 /\ currentIndex = 2 /\ Len(log) = 2
    /\ log[2] = LogEntry(events[2])

\* C8: after a Skip click currentIndex equals the number of events, playing
\* is false, and the log has grown by the entries of exactly the events not
\* yet rendered, once each, in feed order.
C8_SkipRendersTheRest ==
    [][Skip => /\ currentIndex' = Len(events)
               /\ ~playing'
               /\ log' = log \o Rendered(events, currentIndex, Len(events))]_vars

\* At the end of a three-event feed with every event logged once, in order
C8_Witness ==
    /\ ~playing
    /\ Len(events) = 3 /\ currentIndex = Len(events)
    /\ log = Rendered(events, 0, 3)
    /\ lastLoad.outcome = "applied" /\ requests = <<>>
\* C13: no playback operation (animation frame, Step, Skip, Play/Pause,
\* speed change) nor the issue of a poll changes the events list; the list
\* changes only when a feed response is applied, and then it becomes the
\* normalized events of that response as a whole.  Put the other way
\* round: a step that changes the list is none of those operations, and
\* it is the application of a response.
C13_EventsReadOnly ==
    [][ events' # events =>
          /\ lastLoad'.outcome = "applied"
          /\ lastLoad'.payload \in FeedObjects
          /\ events' = EventsOf[lastLoad'.payload]
          /\ \E r \in DOMAIN requests : FeedArrives(r, lastLoad'.payload)
          /\ ~(Frame \/ PlayPause \/ Step \/ Skip \/ Speed \/ Poll) ]_vars

\* A feed of two events was played to its end by the frames: the list is
\* still the normalized events of the response that was applied.
C13_Witness ==
    /\ lastLoad.outcome = "applied"
    /\ events = EventsOf[lastLoad.payload]
    /\ Len(events) = 2 /\ currentIndex = 2 /\ Len(log) = 2
    /\ ~playing /\ sinceTick = 0

\* C14: a Play/Pause click negates playing and leaves events, currentIndex,
\* the log, feedVersion, the tick clock, the speed and the feed status as
\* they were; while playing is false an animation frame renders nothing
\* and leaves currentIndex alone, whatever the time since the last tick.
C14_PlayPauseOnlyToggles ==
    [][ /\ PlayPause => /\ playing' = ~playing
                        /\ UNCHANGED <<events, currentIndex, log, feedVersion,
                                       sinceTick, tickDelay, feedStatus>>
        /\ (~playing /\ Frame) => UNCHANGED <<currentIndex, log, playing>> ]_vars

\* Paused by a Play/Pause click after the first of three events, and more
\* time than any tick delay has passed on the frames since.
C14_Witness ==
    /\ ~playing /\ playPauseText = "Play"
    /\ Len(events) = 3 /\ currentIndex = 1 /\ Len(log) = 1
    /\ sinceTick = MaxDelay

\* C15: in every state 0 <= currentIndex <= number of loaded events, and the
\* log holds one entry for each of the first currentIndex events of the
\* loaded feed, in feed order, and nothing else.
C15_LogMatchesPosition ==
    /\ currentIndex \in 0..Len(events)
    /\ log = Rendered(events, 0, currentIndex)

\* Both loads have settled and the later one was applied: a feed of three
\* events has replaced what was there, and two of them are in the log.
C15_Witness ==
    /\ requests = <<>> /\ issued = 2
    /\ lastLoad.outcome = "applied"
    /\ Len(events) = 3 /\ currentIndex = 2
    /\ log = <<LogEntry(events[1]), LogEntry(events[2])>>
    /\ playing

\* C16 as stated: the response of a call that has been overtaken (a call
\* made after it has already succeeded) never replaces the feed: it is not
\* applied with a fingerprint other than the stored one.  So once every
\* call has settled, events and feedVersion are those of the latest made
\* call that succeeded.
C16_AsStated ==
    [][\A r \in DOMAIN requests :
        LET payload == lastLoad'.payload IN
          ( /\ lastLoad'.outcome = "applied"
            /\ payload \in FeedObjects
            /\ Str(VersionOf[payload]) # feedVersion
            /\ FeedArrives(r, payload) )
          => ~requests[r].overtaken]_vars

\* C18 as stated: once a feed has been applied, a response that carries the
\* stored fingerprint leaves currentIndex, the log and playing as they
\* were, whichever call it answers and in whatever order the responses
\* arrive.
C18_AsStated ==
    [][\A r \in DOMAIN requests :
        LET payload == lastLoad'.payload IN
          ( /\ feedVersion # Null
            /\ payload \in FeedObjects
            /\ Str(VersionOf[payload]) = feedVersion
            /\ FeedArrives(r, payload) )
          => UNCHANGED <<currentIndex, log, playing>>]_vars


\* C22 as stated: when the feed status shows a failed load and the response
\* of a poll then arrives with a feed document, the status shows the
\* failure no longer, also when the document has the stored fingerprint.
C22_AsStated ==
    [][ LET failures == {FailedStatus(failure.message) : failure \in FetchFailures}
                           \cup {FailedStatus("Cannot read properties of null")}
        IN  (/\ feedStatus \in failures
             /\ lastLoad'.outcome \in {"same", "applied"}
             /\ \E r \in DOMAIN requests :
                   requests[r].silent /\ FeedArrives(r, lastLoad'.payload))
            => feedStatus' \notin failures ]_vars

\* A poll has failed and the next one has found the feed it already had: no
\* call is waiting, the events are the loaded ones, and the status still
\* reads 'Failed to load feed'.
C22_Witness ==
    /\ lastLoad.outcome = "same"
    /\ requests = <<>>
    /\ events # <<>>
    /\ feedVersion = Str(VersionOf[lastLoad.payload])
    /\ feedStatus = FailedStatus("Replay feed unavailable (404)")

\* C23 as stated: whenever a feed with events has been rendered to its end,
\* playing is false and the Play/Pause button reads 'Play'.
C23_AsStated ==
    (Len(events) > 0 /\ currentIndex = Len(events))
    => (~playing /\ playPauseText = "Play")

\* Play/Pause was clicked after the last event of the loaded feed had been
\* rendered: the viewer is at the end, playing, and the button reads 'Pause'.
C23_Witness ==
    /\ Len(events) > 0 /\ currentIndex = Len(events)
    /\ Len(log) = Len(events)
    /\ requests = <<>>
    /\ playing /\ playPauseText = "Pause"
-----------------------------------------------------------------------------
(* Claims about normalizeEvent, checked under NormalizeSpec.               *)

\* The value of a field, or its default when the field is missing or null
Defaulted(value, default) == IF value \in {Undefined, Null} THEN default ELSE value

\* The event the values v stand for at position i of the raw array
Expected(v, i) ==
    [ number |-> Defaulted(v.number, Num(i)),
      batter |-> Defaulted(v.batter, Str("Unknown")),
      outcome |-> Defaulted(v.outcome, Str("unknown")),
      detail |-> Defaulted(v.detail, Str("")),
      balls_before |-> Defaulted(v.balls_before, Num(0)),
      strikes_before |-> Defaulted(v.strikes_before, Num(0)),
      outs_before |-> Defaulted(v.outs_before, Num(0)),
      balls_after |-> Defaulted(v.balls_after, Defaulted(v.balls_before, Num(0))),
      strikes_after |-> Defaulted(v.strikes_after, Defaulted(v.strikes_before, Num(0))),
      outs_after |-> Defaulted(v.outs_after, Defaulted(v.outs_before, Num(0))),
      bases_before |-> Defaulted(v.bases_before, Arr(<<Bool(FALSE), Bool(FALSE), Bool(FALSE)>>)),
      bases_after |-> Defaulted(v.bases_after, Arr(<<Bool(FALSE), Bool(FALSE), Bool(FALSE)>>)),
      runs_scored |-> Defaulted(v.runs_scored, Num(0)),
      total_runs |-> Defaulted(v.total_runs, Num(0)),
      contact_quality |-> Defaulted(v.contact_quality, Num(0)),
      crowd_energy_before |-> Defaulted(v.crowd_energy_before, Num(0)),
      crowd_energy_after |-> Defaulted(v.crowd_energy_after, Num(0)),
      crowd_modifiers |-> Defaulted(v.crowd_modifiers, Obj([k \in {} |-> Undefined])) ]

\* C11: a nested and a flat event that carry the same values normalize to
\* the same record, in which every value that is there is kept and every
\* missing field has its default: number = position in the raw array,
\* batter 'Unknown', outcome 'unknown', counts, outs, runs and energy 0,
\* bases [false, false, false], modifiers {}, and a missing 'after' count
\* the 'before' count before 0.  The base arrays, where there, have three
\* entries.
C11_BothShapesNormalizeAlike ==
    (/\ returned # Undefined
     /\ call.values.bases_before \notin {ShortBases, LongBases}
     /\ call.values.bases_after \notin {ShortBases, LongBases})
    => /\ returned = Expected(call.values, call.position)
       /\ returned = normalizeEvent(
              RawEventOf([call EXCEPT !.shape = IF @ = "nested" THEN "flat" ELSE "nested"]),
              call.position)

\* A nested event second in the raw array, without pitch_number, count.after
\* and outs.after: number is 2 and the 'after' counts are the 'before' ones.
C11_Witness ==
    /\ returned # Undefined
    /\ call.shape = "nested" /\ call.position = 2
    /\ call.values.number = Undefined /\ returned.number = Num(2)
    /\ call.values.balls_after = Undefined /\ call.values.balls_before = Num(2)
    /\ returned.balls_after = Num(2)
    /\ call.values.outs_after = Undefined /\ returned.outs_after = Num(1)
    /\ call.values.strikes_after = Num(0) /\ returned.strikes_after = Num(0)
    /\ returned.bases_before = Arr(<<Bool(FALSE), Bool(FALSE), Bool(FALSE)>>)

\* C12 as stated: bases_before and bases_after of a normalized event have
\* exactly three entries each, whatever array the raw event supplied.
C12_AsStated ==
    returned # Undefined
    => /\ Len(returned.bases_before.v) = 3
       /\ Len(returned.bases_after.v) = 3

\* A raw event with two bases before and four after: the normalized event
\* has two entries before and three after.
C12_Witness ==
    /\ returned # Undefined
    /\ call.values.bases_before = ShortBases /\ call.values.bases_after = LongBases
    /\ Len(returned.bases_before.v) = 2 /\ Len(returned.bases_after.v) = 3


-----------------------------------------------------------------------------
(* Claims about playback left alone, checked under PlaybackSpec.           *)

\* C9 as stated: with a non-empty feed loaded and playing true, frames alone
\* lead to every event rendered in feed order, currentIndex equal to the
\* number of events and playing false; and a frame advances by at most one
\* event.
C9_AsStated ==
    /\ [][Frame => /\ currentIndex' \in {currentIndex, currentIndex + 1}
                   /\ Len(log') = currentIndex']_vars
    /\ (playing /\ Len(events) > 0)
          ~> ( /\ ~playing
               /\ currentIndex = Len(events)
               /\ log = Rendered(events, 0, Len(events)) )

\* Playing was switched on at the end of the feed and frames have passed:
\* the clock restarts at every due frame, nothing is rendered, playing stays.
C9_Witness ==
    /\ playing /\ playPauseText = "Pause"
    /\ Len(events) > 0 /\ currentIndex = Len(events)
    /\ log = Rendered(events, 0, Len(events))
    /\ sinceTick = 0

-----------------------------------------------------------------------------
(* Claims about the management panel, checked under ManagerSpec.           *)

Economics(s) == Get(s, "economics")

\* C3: right after every operation that changes the state on user input
\* (lineup and rotation edits, ticket price, promotion toggle, concession
\* price, setLineup, setRotation, setEconomicPlan, an accepted upload) the
\* item 'managerState' is the JSON serialization of the new state; an
\* operation that throws before it changes the state leaves both alone.
\* Put the other way round: a step that changes the state or the item and
\* leaves the item different from the serialization of the new state is
\* none of these operations.
C3_StateMirroredToStorage ==
    [][ ( /\ storage' # JSON_stringify(state')
          /\ <<state, storage>>' # <<state, storage>> ) => ~UserMutation ]_vars

\* A ticket price that is not a number was set and stored: the item holds
\* the serialization of the state, in which the price reads null.
C3_Witness ==
    /\ Get(Economics(state), "ticketPrice") = NaN
    /\ storage = JSON_stringify(state)
    /\ Get(Get(storage.json, "economics"), "ticketPrice") = Null
    /\ syncStatus.level = "warning"

\* Export with getBridgePayload, then import as upload and bootstrap do
RoundTrip(s) ==
    mergeState(defaultState,
               normalizeBridgePayload(JSON_parse(JSON_stringify(getBridgePayload(s)))))

\* C4 as stated: exporting the state and importing the document again gives
\* the same team name, lineup, rotation, ticket price, promotion flags and
\* concession prices.
C4_AsStated ==
    LET back == RoundTrip(state)
    IN  /\ Get(back, "teamName") = Get(state, "teamName")
        /\ Get(back, "lineup") = Get(state, "lineup")
        /\ Get(back, "rotation") = Get(state, "rotation")
        /\ Get(Economics(back), "ticketPrice") = Get(Economics(state), "ticketPrice")
        /\ Get(Economics(back), "promotions") = Get(Economics(state), "promotions")
        /\ Get(Economics(back), "concessions") = Get(Economics(state), "concessions")

\* The fireworks are switched off and everything else is as bootstrap left
\* it; after the round trip the fireworks are on again.
C4_Witness ==
    /\ bootstrap = "done"
    /\ Get(Economics(state), "promotions").v["fireworks"] = Bool(FALSE)
    /\ Get(Economics(RoundTrip(state)), "promotions").v["fireworks"] = Bool(TRUE)
    /\ Get(Economics(state), "ticketPrice") = Num(24)
    /\ Get(state, "lineup") = Get(defaultState, "lineup")
    /\ syncStatus.level = "warning"

\* The bridge file is usable: fetched with an OK status, it parses to an
\* object that normalizeBridgePayload accepts
UsableFile(response) ==
    /\ response.kind = "ok"
    /\ JSON_parse(response.body) # Throws
    /\ JSON_parse(response.body).t \in {"object", "array"}
    /\ normalizeBridgePayload(JSON_parse(response.body)) # Throws

\* The item read from local storage is usable: it is there and parses to a
\* value that mergeState accepts
UsableItem(raw) ==
    /\ raw # Null
    /\ JSON_parse(raw) # Throws
    /\ JSON_parse(raw).t \notin {"null", "undefined"}

\* C5 as stated: when bootstrap completes, the state is built from the bridge
\* file if it is usable; else from the 'managerState' item if it is usable;
\* else from the defaults; always merged over the defaults, and bootstrap
\* does not throw, whatever the fetch and local storage gave.
C5_AsStated ==
    [][\A response \in BridgeResponses :
          BootstrapCompletes(response) =>
            /\ bootstrap' = "done"
            /\ state' =
                  IF UsableFile(response)
                  THEN mergeState(defaultState,
                                  normalizeBridgePayload(JSON_parse(response.body)))
                  ELSE IF UsableItem(bootRaw)
                  THEN mergeState(defaultState,
                                  mergeState(defaultState, JSON_parse(bootRaw)))
                  ELSE mergeState(defaultState, defaultState)]_vars

\* Bootstrap threw in renderAll: the state holds the stored lineup, null,
\* no lineup row is left and neither status was set.
C5_Witness ==
    /\ bootstrap = "threw"
    /\ Get(state, "lineup") = Null
    /\ rendered.lineup = 0
    /\ syncStatus = PanelStatus("", "")

\* The parts of the payload that do not depend on the prices
PayloadRest(s, payload) ==
    LET team == Get(payload, "team")
        finance == Get(payload, "finance")
        flags == Get(Economics(s), "promotions").v
        listed == {Get(finance, "promotions").v[i].v : i \in DOMAIN Get(finance, "promotions").v}
        on == {key \in DOMAIN flags : Truthy(flags[key])}
    IN  /\ Get(team, "name") = Get(s, "teamName")
        /\ Get(team, "lineup") = Get(s, "lineup")
        /\ Get(team, "rotation") = Get(s, "rotation")
        /\ listed = on
        /\ Len(Get(finance, "promotions").v) = Cardinality(on)
        /\ Get(Get(finance, "expenses"), "promotions") =
              Num( (IF "fireworks" \in on THEN 15000 ELSE 0)
                   + (IF "kidsDay" \in on THEN 5000 ELSE 0)
                   + (IF "themeNight" \in on THEN 8000 ELSE 0)
                   + (IF "giveaway" \in on THEN 12000 ELSE 0) )
        /\ Get(finance, "cash_on_hand") = Num(250000)

\* C10 as stated: in every state the payload repeats the team name, lineup,
\* rotation, ticket price and concession prices, lists exactly the
\* promotions that are on, gives gate = ticket price * 5000, the summed
\* promotion costs and cash_on_hand 250000; a download leaves the state alone.
C10_AsStated ==
    [][LET payload == getBridgePayload(state)
           price == Get(Economics(state), "ticketPrice")
       IN  /\ PayloadRest(state, payload)
           /\ Get(Get(payload, "finance"), "ticket_price") = price
           /\ Get(Get(payload, "finance"), "concessions_pricing")
                 = Get(Economics(state), "concessions")
           /\ Get(Get(Get(payload, "finance"), "revenue"), "gate") = Times(price, 5000)
           /\ Download => UNCHANGED <<state, storage>>]_vars

\* C10, amended: as stated, except that the prices are exported as numbers:
\* a ticket price that is not a number (NaN) is exported as ticket_price 0
\* with gate 0, and a concession price held as the string "4.5" is exported
\* as the number 4.5.
C10_BridgePayloadOfState ==
    [][LET payload == getBridgePayload(state)
           price == IF Get(Economics(state), "ticketPrice") = NaN THEN Num(0)
                    ELSE Get(Economics(state), "ticketPrice")
           concessions == Get(Economics(state), "concessions").v
           pricing == Get(Get(payload, "finance"), "concessions_pricing").v
       IN  /\ PayloadRest(state, payload)
           /\ Get(Get(payload, "finance"), "ticket_price") = price
           /\ price.t = "number"
           /\ DOMAIN pricing = DOMAIN concessions
           /\ \A item \in DOMAIN concessions :
                 /\ pricing[item].t = "number"
                 /\ concessions[item].t = "number" => pricing[item] = concessions[item]
                 /\ concessions[item] = Str("4.5") => pricing[item] = Half(9)
           /\ Get(Get(Get(payload, "finance"), "revenue"), "gate") = Times(price, 5000)
           /\ Download => UNCHANGED <<state, storage>>]_vars

\* Downloaded with a ticket price that is not a number, a concession price
\* held as a string, a promotion without a fixed cost switched on and the
\* fireworks off
C10_Witness ==
    /\ syncStatus.level = "success"
    /\ Get(Economics(state), "ticketPrice") = NaN
    /\ Get(Economics(state), "concessions").v["Soda"] = Str("4.5")
    /\ Get(Get(getBridgePayload(state), "finance"), "promotions")
          = Arr(<<Str("themeNight"), Str("bobblehead")>>)

\* C17 as stated: the in-memory state starts as the defaults, so a part
\* that differs from the defaults when bootstrap completes was edited while
\* the fetch was pending; after bootstrap has completed the state still
\* holds every such part as edited.
C17_AsStated ==
    [][\A response \in BridgeResponses :
          BootstrapCompletes(response) =>
            /\ \A part \in {"lineup", "rotation"} :
                  Get(state, part) # Get(defaultState, part)
                  => Get(state', part) = Get(state, part)
            /\ \A part \in {"ticketPrice", "promotions", "concessions"} :
                  Get(Economics(state), part) # Get(Economics(defaultState), part)
                  => Get(Economics(state'), part) = Get(Economics(state), part)]_vars

\* Bootstrap has completed after the ticket price was set to 0 while the
\* fetch was pending: local storage holds the edit, the state has the
\* default price again, and nothing has been persisted since.
C17_Witness ==
    /\ bootstrap = "done"
    /\ syncStatus.level = "info"
    /\ "json" \in DOMAIN storage
    /\ Get(Get(storage.json, "economics"), "ticketPrice") = Num(0)
    /\ Get(Economics(state), "ticketPrice") = Num(24)

\* C19 as stated: the sync status is 'success' only for the state that the
\* latest download exported: a step that changes the state, and the
\* completion of bootstrap, leave the status at another level.
C19_AsStated ==
    [][ /\ state' # state => syncStatus'.level # "success"
        /\ (\E response \in BridgeResponses : BootstrapCompletes(response))
              => syncStatus'.level # "success" ]_vars

\* The file was downloaded while the fetch was pending and bootstrap then
\* threw in renderAll: the status still reads 'Synced', for a state whose
\* lineup is null.
C19_Witness ==
    /\ bootstrap = "threw"
    /\ syncStatus.level = "success"
    /\ Get(state, "lineup") = Null

\* C20: an upload always clears the file input.  When the file's text is not
\* JSON, is the JSON of something that is not an object, or is a bridge file
\* on which normalizeBridgePayload throws, the state, the 'managerState'
\* entry and the sync status stay as they were; and when reading the file
\* threw, the validation status reports an error.
C20_FailedUploadLeavesPanel ==
    [][\A text \in UploadFiles \cup {ExportedNow} :
          Upload(text) =>
            LET parsed == JSON_parse(text)
                threw == \/ parsed = Throws
                         \/ normalizeBridgePayload(parsed) = Throws
                rejected == parsed # Throws /\ parsed.t \notin {"object", "array"}
            IN  /\ uploadValue' = ""
                /\ (threw \/ rejected) => UNCHANGED <<state, storage, syncStatus>>
                /\ threw => validationStatus'.level = "error"]_vars

\* A file that could not be read was uploaded over an edited panel: the
\* input is empty again, the validation status reports the error, and the
\* edit is still in the state and in local storage, pending sync.
C20_Witness ==
    /\ uploadValue = ""
    /\ validationStatus = PanelStatus("Unable to read file: " \o ErrMessage, "error")
    /\ syncStatus.level = "warning"
    /\ Get(Economics(state), "ticketPrice") = Num(0)
    /\ storage = JSON_stringify(state)

\* C21 as stated: after a step that ends in persist or in bootstrap (every
\* step but a download, choosing a file and an upload), the level of the
\* validation status is 'error' when the lineup has fewer than 9 players,
\* misses a required position or the projected net is below half the base
\* cash; else 'warning' when the rotation has fewer than 3 starters or fewer
\* than 2 relievers or the promotion spend exceeds the projected revenue;
\* else 'success'.
C21_AsStated ==
    [][ (uploadValue' = uploadValue /\ ~Download) =>
          LET lineup == Get(state', "lineup")
              rotation == Get(state', "rotation")
              players == IF lineup.t = "array" THEN Len(lineup.v) ELSE 0
              held == IF lineup.t = "array"
                      THEN {Get(lineup.v[i], "position") : i \in DOMAIN lineup.v}
                      ELSE {}
              roles == IF rotation.t = "array"
                       THEN [i \in DOMAIN rotation.v |-> Get(rotation.v[i], "role")]
                       ELSE <<>>
              budget == estimatedBudget(state')
              issue == \/ players < 9
                       \/ \E pos \in {"C", "1B", "2B", "3B", "SS", "LF", "CF", "RF"} :
                             Str(pos) \notin held
                       \/ budget.net < 125000
              warning == \/ Cardinality({i \in DOMAIN roles : roles[i] = Str("SP")}) < 3
                         \/ Cardinality({i \in DOMAIN roles : roles[i] # Str("SP")}) < 2
                         \/ budget.promoSpend > budget.estimatedRevenue
          IN  validationStatus'.level =
                 IF issue THEN "error" ELSE IF warning THEN "warning" ELSE "success" ]_vars

\* Bootstrap threw on the stored lineup, null, and the ticket price was then
\* cleared: the state is persisted, and the validation status is as empty as
\* when the page loaded.
C21_Witness ==
    /\ bootstrap = "threw"
    /\ Get(state, "lineup") = Null
    /\ Get(Economics(state), "ticketPrice") = Num(0)
    /\ storage = JSON_stringify(state)
    /\ syncStatus.level = "warning"
    /\ validationStatus = PanelStatus("", "")

====
